---- MODULE Spec2Model ----
(***************************************************************************)
(* Model of aptools/data_analysis/beam_diagnostics.py: the estimators of   *)
(* beam moments (emittance, Twiss functions, energy spread, slices and     *)
(* current profile).                                                       *)
(*                                                                         *)
(* The estimators are functions of the caller's arrays; the state is the   *)
(* caller's arrays (which twiss_parameters changes in place), the call     *)
(* made last and what it returned.  Numbers are exact rationals <<n, d>>;  *)
(* a square root that the code returns is kept as coef * sqrt(rad).  A     *)
(* call whose intermediate square roots (gamma, the particle energy) are   *)
(* not rational is outside the model: the actions are guarded by it.       *)
(***************************************************************************)
EXTENDS Integers, Sequences, FiniteSets, TLC

\* ------------------------------------------------------------------ bounds
MaxN == 3
MaxZ == 2
MaxSlices == 3

\* ------------------------------------------------------- exact rationals
Abs(i) == IF i < 0 THEN -i ELSE i

RECURSIVE GCD(_, _)
GCD(a, b) == IF b = 0 THEN a ELSE GCD(b, a % b)

\* A float that is not finite (nan or +-inf): the result of a division by 0.
NonFinite == <<0, 0>>

Finite(a) == a[2] # 0

Norm(n, d) ==
    IF d = 0 THEN NonFinite
    ELSE LET g == GCD(Abs(n), Abs(d))
             s == IF d < 0 THEN -1 ELSE 1
         IN  <<s * (n \div g), s * (d \div g)>>

Q(n) == <<n, 1>>

QAdd(a, b) ==
    IF Finite(a) /\ Finite(b)
    THEN LET g == GCD(a[2], b[2])
         IN  Norm(a[1] * (b[2] \div g) + b[1] * (a[2] \div g), (a[2] \div g) * b[2])
    ELSE NonFinite

QNeg(a) == IF Finite(a) THEN <<-a[1], a[2]>> ELSE NonFinite

QSub(a, b) == QAdd(a, QNeg(b))

QMul(a, b) ==
    IF Finite(a) /\ Finite(b)
    THEN LET g1 == GCD(Abs(a[1]), b[2])
             g2 == GCD(Abs(b[1]), a[2])
         IN  Norm((a[1] \div g1) * (b[1] \div g2), (a[2] \div g2) * (b[2] \div g1))
    ELSE NonFinite

QInv(a) == IF Finite(a) THEN Norm(a[2], a[1]) ELSE NonFinite

QDiv(a, b) == QMul(a, QInv(b))

QSq(a) == QMul(a, a)

QAbs(a) == IF Finite(a) THEN <<Abs(a[1]), a[2]>> ELSE NonFinite

QLt(a, b) == a[1] * b[2] < b[1] * a[2]

QLe(a, b) == a[1] * b[2] <= b[1] * a[2]

QSign(a) == IF a[1] > 0 THEN 1 ELSE IF a[1] < 0 THEN -1 ELSE 0

RECURSIVE ISqrtBetween(_, _, _)
ISqrtBetween(n, lo, hi) ==
    IF lo >= hi THEN lo
    ELSE LET mid == (lo + hi + 1) \div 2
         IN  IF mid * mid <= n THEN ISqrtBetween(n, mid, hi)
             ELSE ISqrtBetween(n, lo, mid - 1)

\* floor(sqrt(n)); the roots the model takes stay below 2^15.
ISqrt(n) == ISqrtBetween(n, 0, IF n < 32767 THEN n ELSE 32767)

IsSquare(a) ==
    /\ Finite(a)
    /\ a[1] >= 0
    /\ ISqrt(a[1]) * ISqrt(a[1]) = a[1]
    /\ ISqrt(a[2]) * ISqrt(a[2]) = a[2]

QSqrt(a) == <<ISqrt(a[1]), ISqrt(a[2])>>

\* ---------------------------------------------- coef * sqrt(rad) numbers
SZero == [coef |-> Q(0), rad |-> Q(1)]

SNonFinite == [coef |-> NonFinite, rad |-> Q(1)]

Surd(c, r) ==
    IF ~Finite(c) \/ ~Finite(r) THEN SNonFinite
    ELSE IF c[1] = 0 \/ r[1] = 0 THEN SZero
    ELSE IF IsSquare(r) THEN [coef |-> QMul(c, QSqrt(r)), rad |-> Q(1)]
    ELSE [coef |-> c, rad |-> r]

SFinite(s) == Finite(s.coef)

SIsZero(s) == SFinite(s) /\ s.coef[1] = 0

\* The square of a surd, a rational.
SSq(s) == QMul(QSq(s.coef), s.rad)

\* Two surds denote the same real number.
SEq(s, t) ==
    /\ SFinite(s) = SFinite(t)
    /\ SFinite(s) => /\ QSign(s.coef) = QSign(t.coef)
                     /\ SSq(s) = SSq(t)

SMulQ(s, a) == Surd(QMul(s.coef, a), s.rad)

SDivQ(s, a) == Surd(QDiv(s.coef, a), s.rad)

\* a / (c * sqrt(r)) = (a / (c * r)) * sqrt(r)
QDivS(a, s) ==
    IF ~SFinite(s) \/ SIsZero(s) THEN SNonFinite
    ELSE Surd(QDiv(a, QMul(s.coef, s.rad)), s.rad)

\* ------------------------------------------------------------- sequences
RECURSIVE SumQ(_)
SumQ(s) == IF s = <<>> THEN Q(0) ELSE QAdd(Head(s), SumQ(Tail(s)))

\* An array with its entries computed (TLC keeps a bare [i \in S |-> e] unevaluated).
Arr(f) == f \o <<>>

\* s*t, s - t and s/t of two arrays, entry by entry
Times(s, t) == Arr([i \in 1..Len(s) |-> QMul(s[i], t[i])])

Minus(s, t) == Arr([i \in 1..Len(s) |-> QSub(s[i], t[i])])

Over(s, t) == Arr([i \in 1..Len(s) |-> QDiv(s[i], t[i])])

Scale(s, a) == Arr([i \in 1..Len(s) |-> QMul(s[i], a)])

Shift(s, a) == Arr([i \in 1..Len(s) |-> QSub(s[i], a)])

RECURSIVE IdxSeq(_)
IdxSeq(F) ==
    IF F = {} THEN <<>>
    ELSE LET m == CHOOSE i \in F : \A j \in F : i <= j
         IN  <<m>> \o IdxSeq(F \ {m})

\* numpy's boolean-mask indexing a[filter]: the selected entries, in order.
Pick(s, F) == LET ix == IdxSeq(F) IN Arr([k \in 1..Len(ix) |-> s[ix[k]]])

RECURSIVE MinQ(_)
MinQ(s) ==
    IF Len(s) = 1 THEN s[1]
    ELSE LET m == MinQ(Tail(s)) IN IF QLe(s[1], m) THEN s[1] ELSE m

RECURSIVE MaxQ(_)
MaxQ(s) ==
    IF Len(s) = 1 THEN s[1]
    ELSE LET m == MaxQ(Tail(s)) IN IF QLe(m, s[1]) THEN s[1] ELSE m

\* ----------------------------------------------------------- the arrays
(* An array is a sequence of rationals.  The weight w is an array or a     *)
(* single value: [iter |-> TRUE, val |-> <<w1, ...>>] or                   *)
(* [iter |-> FALSE, val |-> w].  A beam is the record of the caller's      *)
(* arrays x, px, py, pz, z, w, q; none is the set of the optional arrays   *)
(* (py, pz) the caller leaves at None.                                     *)

\* np.abs(w)
AbsW(w) ==
    IF w.iter THEN [iter |-> TRUE, val |-> Arr([i \in 1..Len(w.val) |-> QAbs(w.val[i])])]
    ELSE [iter |-> FALSE, val |-> QAbs(w.val)]

\* w[slice_particle_filter] if hasattr(w, '__iter__') else w
SliceOfW(w, F) ==
    IF w.iter THEN [iter |-> TRUE, val |-> Pick(w.val, F)] ELSE w

\* np.sum(w_slice): of a single value, the value itself.
NpSum(w) == IF w.iter THEN SumQ(w.val) ELSE w.val

(* np.average(a, weights=w) of a 1-d array a raises TypeError when w is a  *)
(* single value (the shapes of a and w differ and no axis is given) and    *)
(* ZeroDivisionError when the weights sum to zero.                         *)
AverageRaises(a, w) ==
    \/ ~w.iter
    \/ Len(w.val) # Len(a)
    \/ SumQ(w.val)[1] = 0

Average(a, w) == QDiv(SumQ(Times(a, w.val)), SumQ(w.val))

(* np.cov(a, b, aweights=w) raises when w is a single value (aweights has  *)
(* no first axis to compare with the number of samples).                   *)
CovRaises(a, w) ==
    \/ ~w.iter
    \/ Len(w.val) # Len(a)

(* np.linalg.det(np.cov(a, b, aweights=w)): the weighted means, the        *)
(* normalisation w_sum - sum(w*w)/w_sum (ddof = 1) and the determinant of  *)
(* the 2x2 matrix.  With one sample the normalisation is 0 and the matrix  *)
(* is not finite.                                                          *)
CovDet(a, b, w) ==
    LET wsum == SumQ(w.val)
        abar == QDiv(SumQ(Times(a, w.val)), wsum)
        bbar == QDiv(SumQ(Times(b, w.val)), wsum)
        da   == Shift(a, abar)
        db   == Shift(b, bbar)
        fact == QSub(wsum, QDiv(SumQ(Times(w.val, w.val)), wsum))
        caa  == QDiv(SumQ(Times(w.val, Times(da, da))), fact)
        cab  == QDiv(SumQ(Times(w.val, Times(da, db))), fact)
        cbb  == QDiv(SumQ(Times(w.val, Times(db, db))), fact)
    IN  IF Len(a) = 0 \/ ~Finite(fact) \/ fact[1] <= 0 THEN NonFinite
        ELSE QSub(QMul(caa, cbb), QMul(cab, cab))

\* np.sqrt(np.square(px) + np.square(py) + np.square(pz)), squared
GammaSq(px, py, pz) ==
    Arr([i \in 1..Len(px) |-> QAdd(QSq(px[i]), QAdd(QSq(py[i]), QSq(pz[i])))])

Gamma(px, py, pz) ==
    LET g2 == GammaSq(px, py, pz) IN Arr([i \in 1..Len(px) |-> QSqrt(g2[i])])

\* np.sqrt(1 + np.square(px) + np.square(py) + np.square(pz))
Energy(px, py, pz) ==
    LET g2 == GammaSq(px, py, pz) IN Arr([i \in 1..Len(px) |-> QSqrt(QAdd(Q(1), g2[i]))])

\* The roots above are rational: the calls the model covers.
GammaExact(px, py, pz) ==
    LET g2 == GammaSq(px, py, pz) IN \A i \in 1..Len(px) : IsSquare(g2[i])

EnergyExact(px, py, pz) ==
    LET g2 == GammaSq(px, py, pz) IN \A i \in 1..Len(px) : IsSquare(QAdd(Q(1), g2[i]))

\* ------------------------------------------- aptools.helper_functions
(* weighted_std(values, weights): the weighted population standard         *)
(* deviation; a single weight is applied uniformly.                        *)
Uniform(a, w) ==
    IF w.iter THEN w ELSE [iter |-> TRUE, val |-> Arr([i \in 1..Len(a) |-> w.val])]

weighted_std(values, weights) ==
    LET w    == AbsW(Uniform(values, weights))
        mean == Average(values, w)
        d    == Shift(values, mean)
    IN  Surd(Q(1), Average(Times(d, d), w))

(* create_beam_slices(z, n_slices, len_slice): the number of slices and    *)
(* the n_slices + 1 uniformly spaced edges from min(z) to max(z).          *)
None == <<>>

QFloor(a) == a[1] \div a[2]

NSlices(z, n_slices, len_slice) ==
    IF len_slice # None
    THEN QFloor(QDiv(QSub(MaxQ(z), MinQ(z)), len_slice))
    ELSE n_slices

Linspace(a, b, num) ==
    Arr([k \in 1..num |->
            IF num = 1 THEN a
            ELSE QAdd(a, QMul(Q(k - 1), QDiv(QSub(b, a), Q(num - 1))))])

create_beam_slices(z, n_slices, len_slice) ==
    LET n == NSlices(z, n_slices, len_slice)
    IN  [slice_lims |-> Linspace(MinQ(z), MaxQ(z), n + 1), n_slices |-> n]

(* slope_of_correlation(y, x, w): the slope of the weighted least-squares  *)
(* line of y against x, (<yx> - <y><x>) / (<x^2> - <x>^2).                 *)
slope_of_correlation(y, x, w) ==
    LET a == Average(Times(y, x), w)
        b == Average(y, w)
        c == Average(x, w)
        d == Average(Times(x, x), w)
    IN  QDiv(QSub(a, QMul(b, c)), QSub(d, QMul(c, c)))

\* ------------------------------------------------------- energy spread
\* mean_kinetic_energy (lines 140-181)
mean_kinetic_energy(px, py, pz, w) == Average(Gamma(px, py, pz), AbsW(w))

\* mean_energy: np.average(1 + np.sqrt(np.square(kin_ene))) of one number
mean_energy(px, py, pz, w) == QAdd(Q(1), QAbs(mean_kinetic_energy(px, py, pz, w)))

rms_energy_spread(px, py, pz, w) == weighted_std(Energy(px, py, pz), w)

relative_rms_energy_spread(px, py, pz, w) ==
    SDivQ(rms_energy_spread(px, py, pz, w), mean_energy(px, py, pz, w))

\* mean_kinetic_energy's np.average is the call that rejects a single weight.
relative_rms_energy_spread_raises(px, w) == AverageRaises(px, AbsW(w))

\* ------------------------------------------------------------ np.polyfit
(* np.polyfit(t, y, deg, w=w) minimises sum((w * (y - p(t)))^2): the       *)
(* weights multiply the residuals, so the squares are weighted by w^2.     *)
(* The fitted values p(t[i]) are the projection of y on the polynomials    *)
(* of degree <= deg, taken here by Gram-Schmidt under that inner product;  *)
(* they are the same for every minimiser, also when the fit has fewer      *)
(* distinct abscissae than coefficients.                                   *)
Dot(u, v, w) == SumQ(Times(Times(w.val, w.val), Times(u, v)))

RECURSIVE Power(_, _)
Power(t, k) == IF k = 0 THEN Arr([i \in 1..Len(t) |-> Q(1)]) ELSE Times(t, Power(t, k - 1))

\* v minus its components along the vectors of es (orthogonal, non-zero)
RECURSIVE Reject(_, _, _)
Reject(v, es, w) ==
    IF es = <<>> THEN v
    ELSE LET e == Head(es)
             r == Reject(v, Tail(es), w)
         IN  Minus(r, Scale(e, QDiv(Dot(v, e, w), Dot(e, e, w))))

RECURSIVE OrthoBasis(_, _, _)
OrthoBasis(t, deg, w) ==
    IF deg < 0 THEN <<>>
    ELSE LET es == OrthoBasis(t, deg - 1, w)
             e  == Reject(Power(t, deg), es, w)
         IN  IF Dot(e, e, w)[1] = 0 THEN es ELSE Append(es, e)

\* y - p(t): what is left of y once the fitted polynomial is taken off
PolyfitResidual(t, y, deg, w) == Reject(y, OrthoBasis(t, deg, w), w)

\* p[0] of np.polyfit(t, y, 1, w=w), the slope of the fitted line
PolyfitSlope(t, y, w) ==
    LET sw  == Dot(Power(t, 0), Power(t, 0), w)
        tb  == QDiv(Dot(t, Power(t, 0), w), sw)
        yb  == QDiv(Dot(y, Power(t, 0), w), sw)
        dt  == Shift(t, tb)
    IN  QDiv(Dot(dt, Shift(y, yb), w), Dot(dt, dt, w))

\* dgamma = (gamma - gamma_avg)/gamma_avg
Dgamma(px, py, pz, w) ==
    LET gamma     == Gamma(px, py, pz)
        gamma_avg == Average(gamma, w)
    IN  Arr([i \in 1..Len(gamma) |-> QDiv(QSub(gamma[i], gamma_avg), gamma_avg)])

(* A fit against a dgamma that is zero everywhere (all particles of one    *)
(* momentum) has a zero column in its design matrix, which np.polyfit      *)
(* divides by; the model leaves these calls out.                           *)
FitPosed(px, py, pz, w) ==
    LET dgamma == Dgamma(px, py, pz, w) IN \E i \in 1..Len(px) : dgamma[i][1] # 0

\* ---------------------------------------------------------------- chirp
\* np.polyfit called without w: every residual counts the same.
Ones(a) == [iter |-> TRUE, val |-> Arr([i \in 1..Len(a) |-> Q(1)])]

\* dE_rel = (ene - mean_ene) / mean_ene
RelativeTo(ene, mean_ene) ==
    Arr([i \in 1..Len(ene) |-> QDiv(QSub(ene[i], mean_ene), mean_ene)])

\* The fit of line 296 given the weights w.
longitudinal_energy_chirp_weighted(z, px, py, pz, w) ==
    PolyfitSlope(Shift(z, Average(z, w)),
                 RelativeTo(Energy(px, py, pz), Average(Energy(px, py, pz), w)), w)

(* longitudinal_energy_chirp (lines 291-298): w is given to the two        *)
(* np.average, not to np.polyfit.                                          *)
longitudinal_energy_chirp(z, px, py, pz, w) ==
    PolyfitSlope(Shift(z, Average(z, w)),
                 RelativeTo(Energy(px, py, pz), Average(Energy(px, py, pz), w)), Ones(z))

\* np.average rejects a single weight, and the weights of no particle.
longitudinal_energy_chirp_raises(z, w) == AverageRaises(z, w)

(* A fit against a dz that is zero everywhere (all particles at one z) has *)
(* a zero column in its design matrix, which np.polyfit divides by; the    *)
(* model leaves these calls out.                                           *)
ChirpPosed(z) == \E i, j \in 1..Len(z) : z[i] # z[j]

\* rms_correlated_energy_spread (lines 325-330)
rms_correlated_energy_spread(z, px, py, pz, w) ==
    weighted_std(Scale(Shift(z, Average(z, w)), longitudinal_energy_chirp(z, px, py, pz, w)), w)

\* ------------------------------------------------------------ emittance
(* normalized_transverse_rms_emittance (lines 361-379).  x is rebound, not *)
(* changed in place.  x - s1*dgamma - s2*dgamma**2 is the residual of the  *)
(* degree-2 fit plus its constant coefficient p[2], a shift of every x[i]  *)
(* by the same amount, which the covariance does not see.                  *)
(* The test len(x) > 0 in place of len(x) > 1: np.cov is given the one     *)
(* sample, of which the covariance is not finite.                          *)
normalized_transverse_rms_emittance_of_one(x, px, py, pz, w, disp_corrected) ==
    IF Len(x) > 1
    THEN LET xc == IF disp_corrected
                   THEN PolyfitResidual(Dgamma(px, py, pz, w), x, 2, w)
                   ELSE x
         IN  Surd(Q(1), CovDet(xc, px, AbsW(w)))
    ELSE IF Len(x) = 1 THEN SNonFinite
    ELSE SZero

normalized_transverse_rms_emittance(x, px, py, pz, w, disp_corrected) ==
    IF Len(x) > 1
    THEN LET xc == IF disp_corrected
                   THEN PolyfitResidual(Dgamma(px, py, pz, w), x, 2, w)
                   ELSE x
         IN  Surd(Q(1), CovDet(xc, px, AbsW(w)))
    ELSE SZero

normalized_transverse_rms_emittance_raises(x, none, w, disp_corrected) ==
    /\ Len(x) > 1
    /\ \/ disp_corrected /\ (none # {} \/ AverageRaises(x, w))
       \/ CovRaises(x, AbsW(w))

\* The numpy calls the function makes.
normalized_transverse_rms_emittance_steps(x, disp_corrected) ==
    IF Len(x) > 1
    THEN (IF disp_corrected THEN {"sqrt", "average", "polyfit", "slope_of_correlation"}
          ELSE {}) \cup {"cov", "det"}
    ELSE {}

\* px/pz
Xp(px, pz) == Over(px, pz)

\* v - slope_of_correlation(v, dgamma, w)*dgamma: the correlation taken off
RemoveCorrelation(v, dgamma, w) ==
    Minus(v, Scale(dgamma, slope_of_correlation(v, dgamma, w)))

\* transverse_trace_space_rms_emittance (lines 478-494)
transverse_trace_space_rms_emittance(x, px, py, pz, w, disp_corrected) ==
    IF Len(x) > 1
    THEN IF disp_corrected
         THEN Surd(Q(1), CovDet(RemoveCorrelation(x, Dgamma(px, py, pz, w), w),
                                RemoveCorrelation(Xp(px, pz), Dgamma(px, py, pz, w), w),
                                AbsW(w)))
         ELSE Surd(Q(1), CovDet(x, Xp(px, pz), AbsW(w)))
    ELSE SZero

transverse_trace_space_rms_emittance_raises(x, none, w, disp_corrected) ==
    /\ Len(x) > 1
    /\ \/ "pz" \in none
       \/ disp_corrected /\ (none # {} \/ AverageRaises(x, w))
       \/ CovRaises(x, AbsW(w))

transverse_trace_space_rms_emittance_steps(x, disp_corrected) ==
    IF Len(x) > 1
    THEN {"divide"}
         \cup (IF disp_corrected THEN {"sqrt", "average", "slope_of_correlation"} ELSE {})
         \cup {"cov", "det"}
    ELSE {}

\* The mean of gamma taken without the weights.
geometric_transverse_rms_emittance_unweighted(x, px, py, pz, w, disp_corrected) ==
    LET gamma     == Gamma(px, py, pz)
        gamma_avg == QDiv(SumQ(gamma), Q(Len(gamma)))
        em_x      == normalized_transverse_rms_emittance(x, px, py, pz, w, disp_corrected)
    IN  SDivQ(em_x, gamma_avg)

\* geometric_transverse_rms_emittance (lines 409-413)
geometric_transverse_rms_emittance(x, px, py, pz, w, disp_corrected) ==
    LET gamma     == Gamma(px, py, pz)
        gamma_avg == Average(gamma, w)
        em_x      == normalized_transverse_rms_emittance(x, px, py, pz, w, disp_corrected)
    IN  SDivQ(em_x, gamma_avg)

geometric_transverse_rms_emittance_raises(x, none, w, disp_corrected) ==
    \/ none # {}
    \/ AverageRaises(x, w)
    \/ normalized_transverse_rms_emittance_raises(x, none, w, disp_corrected)

\* normalized_transverse_trace_space_rms_emittance (lines 443-447)
normalized_transverse_trace_space_rms_emittance(x, px, py, pz, w, disp_corrected) ==
    LET gamma     == Gamma(px, py, pz)
        gamma_avg == Average(gamma, w)
        em_x      == transverse_trace_space_rms_emittance(x, px, py, pz, w, disp_corrected)
    IN  SMulQ(em_x, gamma_avg)

normalized_transverse_trace_space_rms_emittance_raises(x, none, w, disp_corrected) ==
    \/ none # {}
    \/ AverageRaises(x, w)
    \/ transverse_trace_space_rms_emittance_raises(x, none, w, disp_corrected)

(* longitudinal_rms_emittance (lines 520-523): no test of the number of    *)
(* particles; np.cov is evaluated whatever it is, and raises on no sample  *)
(* (the weights sum to zero).                                              *)
longitudinal_rms_emittance(z, px, py, pz, w) ==
    LET g == Energy(px, py, pz)
    IN  Surd(Q(1), CovDet(z, g, AbsW(w)))

longitudinal_rms_emittance_raises(z, none, w) ==
    \/ none # {}
    \/ CovRaises(z, AbsW(w))
    \/ Len(z) = 0

longitudinal_rms_emittance_steps == {"sqrt", "cov", "det"}

\* --------------------------------------------------------------- slices
\* (z >= a) & (z <= b): a slice that takes the particles on its lower edge
SliceFilterClosed(z, a, b) == {i \in 1..Len(z) : QLe(a, z[i]) /\ QLe(z[i], b)}

\* slice_particle_filter = (z > a) & (z <= b)
SliceFilter(z, a, b) == {i \in 1..Len(z) : QLt(a, z[i]) /\ QLe(z[i], b)}

\* The filter of each slice i, a = slice_lims[i], b = slice_lims[i+1].
SliceFilters(z, slice_lims, n) ==
    Arr([i \in 1..n |-> SliceFilter(z, slice_lims[i], slice_lims[i + 1])])

\* slice_weight[i] = np.sum(w_slice) outside the test of the filter
SliceWeightUnguarded(w, F) == NpSum(SliceOfW(w, F))

\* slice_weight[i] = np.sum(w_slice), left at 0 for a slice with no particle
SliceWeight(w, F) == IF F = {} THEN Q(0) ELSE NpSum(SliceOfW(w, F))

(* relative_rms_slice_energy_spread (lines 559-578): what it returns, with *)
(* the filters of its loop.                                                *)
relative_rms_slice_energy_spread(z, px, py, pz, w, n_slices, len_slice) ==
    LET cbs == create_beam_slices(z, n_slices, len_slice)
        n   == cbs.n_slices
        fs  == SliceFilters(z, cbs.slice_lims, n)
    IN  [status       |-> "returned",
         slice_value  |-> [i \in 1..n |->
                             IF fs[i] = {} THEN SZero
                             ELSE relative_rms_energy_spread(
                                      Pick(px, fs[i]), Pick(py, fs[i]),
                                      Pick(pz, fs[i]), SliceOfW(w, fs[i]))],
         slice_weight |-> [i \in 1..n |-> SliceWeight(w, fs[i])],
         slice_lims   |-> cbs.slice_lims,
         filters      |-> fs]

\* np.max(z) of no particle raises; so does py[filter] of None.
relative_rms_slice_energy_spread_raises(z, px, none, w, n_slices, len_slice) ==
    \/ Len(z) = 0
    \/ LET cbs == create_beam_slices(z, n_slices, len_slice)
           fs  == SliceFilters(z, cbs.slice_lims, cbs.n_slices)
       IN  \E i \in 1..cbs.n_slices :
               /\ fs[i] # {}
               /\ \/ none # {}
                  \/ relative_rms_energy_spread_raises(Pick(px, fs[i]), SliceOfW(w, fs[i]))

\* normalized_transverse_rms_slice_emittance (lines 620-645)
normalized_transverse_rms_slice_emittance(z, x, px, py, pz, w, disp_corrected, n_slices, len_slice) ==
    LET cbs == create_beam_slices(z, n_slices, len_slice)
        n   == cbs.n_slices
        fs  == SliceFilters(z, cbs.slice_lims, n)
    IN  [status       |-> "returned",
         slice_value  |-> [i \in 1..n |->
                             IF fs[i] = {} THEN SZero
                             ELSE normalized_transverse_rms_emittance(
                                      Pick(x, fs[i]), Pick(px, fs[i]),
                                      Pick(py, fs[i]), Pick(pz, fs[i]),
                                      SliceOfW(w, fs[i]), disp_corrected)],
         slice_weight |-> [i \in 1..n |-> SliceWeight(w, fs[i])],
         slice_lims   |-> cbs.slice_lims,
         filters      |-> fs]

normalized_transverse_rms_slice_emittance_raises(z, x, none, w, disp_corrected, n_slices, len_slice) ==
    \/ Len(z) = 0
    \/ LET cbs == create_beam_slices(z, n_slices, len_slice)
           fs  == SliceFilters(z, cbs.slice_lims, cbs.n_slices)
       IN  \E i \in 1..cbs.n_slices :
               /\ fs[i] # {}
               /\ normalized_transverse_rms_emittance_raises(
                      Pick(x, fs[i]), none, SliceOfW(w, fs[i]), disp_corrected)

\* ------------------------------------------------------ current profile
(* np.histogram(z, bins=n, weights=q): n bins of equal width over          *)
(* [min(z), max(z)] (over [min - 1/2, max + 1/2] when the two are equal),  *)
(* each closed on the left and open on the right, the last one closed on   *)
(* both sides.                                                             *)
HistogramEdges(z, n) ==
    IF MinQ(z) = MaxQ(z)
    THEN Linspace(QSub(MinQ(z), <<1, 2>>), QAdd(MaxQ(z), <<1, 2>>), n + 1)
    ELSE Linspace(MinQ(z), MaxQ(z), n + 1)

\* Every bin open on the right: the particle at max(z) is in no bin.
HistogramBinHalfOpen(z, edges, n, k) ==
    {i \in 1..Len(z) : QLe(edges[k], z[i]) /\ QLt(z[i], edges[k + 1])}

\* The bins of the slicer, (a, b]: the particle at min(z) is in no bin.
HistogramBinOfSlicer(z, edges, n, k) ==
    {i \in 1..Len(z) : QLt(edges[k], z[i]) /\ QLe(z[i], edges[k + 1])}

HistogramBin(z, edges, n, k) ==
    {i \in 1..Len(z) :
        /\ QLe(edges[k], z[i])
        /\ IF k = n THEN QLe(z[i], edges[k + 1]) ELSE QLt(z[i], edges[k + 1])}

Histogram(z, q, n) ==
    LET edges == HistogramEdges(z, n)
    IN  Arr([k \in 1..n |-> SumQ(Pick(q, HistogramBin(z, edges, n, k)))])

(* A quantity val * c^cpow, c the speed of light (scipy.constants.c): the  *)
(* slice duration is a length over c, the current a charge over it.        *)
CNum(v, k) == [val |-> v, cpow |-> k]

CMul(a, b) == CNum(QMul(a.val, b.val), a.cpow + b.cpow)

\* current_profile (lines 668-677)
current_profile(z, q, n_slices, len_slice) ==
    LET n             == NSlices(z, n_slices, len_slice)
        adj_slice_len == QDiv(QSub(MaxQ(z), MinQ(z)), Q(n))
        charge_hist   == Histogram(z, q, n)
        sl_dur        == CNum(adj_slice_len, -1)
    IN  [status       |-> "returned",
         printed      |-> adj_slice_len,
         current_prof |-> [k \in 1..n |-> CNum(QDiv(charge_hist[k], sl_dur.val), 1)],
         z_edges      |-> HistogramEdges(z, n)]

\* np.max(z) of no particle raises; np.histogram raises unless bins >= 1.
current_profile_raises(z, n_slices, len_slice) ==
    \/ Len(z) = 0
    \/ NSlices(z, n_slices, len_slice) < 1

\* ---------------------------------------------------------------- Twiss
Raised == [status |-> "raised"]

\* b_x, a_x = -avg_xp/em_x and g_x = (1 + a_x**2)/b_x of lines 58-59, 79-81
TwissValues(avg_xx, avg_xp, em_x) ==
    LET b_x == QDivS(avg_xx, em_x)
        a_x == QDivS(QNeg(avg_xp), em_x)
        a2  == QDiv(QSq(avg_xp), SSq(em_x))
        g_x == IF SFinite(a_x) THEN QDivS(QAdd(Q(1), a2), b_x) ELSE SNonFinite
    IN  [a_x |-> a_x, b_x |-> b_x, g_x |-> g_x]

\* a - np.average(a, weights=w)
Centred(a, w) == Shift(a, Average(a, w))

\* What twiss_parameters returns, with what it leaves in the caller's x and px.
TwissResult(tw, x, px) ==
    [status |-> "returned", a_x |-> tw.a_x, b_x |-> tw.b_x, g_x |-> tw.g_x,
     x |-> x, px |-> px]

\* lines 58-59: the moments of the x and px the branch 'ph' has written
TwissPh(em_x, gamma_avg, x, px, w) ==
    TwissResult(TwissValues(QMul(Average(Times(x, x), w), gamma_avg),
                            Average(Times(x, px), w), em_x),
                x, px)

\* The correlation with dgamma taken off px as well as off x.
twiss_parameters_ph_both(x, px, pz, py, w, disp_corrected) ==
    TwissPh(normalized_transverse_rms_emittance(x, px, py, pz, w, disp_corrected),
            Average(Gamma(px, py, pz), w),
            IF disp_corrected
            THEN RemoveCorrelation(Centred(x, w), Dgamma(px, py, pz, w), w)
            ELSE Centred(x, w),
            IF disp_corrected
            THEN RemoveCorrelation(Centred(px, w), Dgamma(px, py, pz, w), w)
            ELSE Centred(px, w), w)

(* twiss_parameters, emitt == 'ph' (lines 43-59).  x -= x_avg, px -= px_avg *)
(* and x -= slope*dgamma write into the caller's arrays; gamma is taken    *)
(* before px is centred.                                                   *)
twiss_parameters_ph(x, px, pz, py, w, disp_corrected) ==
    TwissPh(normalized_transverse_rms_emittance(x, px, py, pz, w, disp_corrected),
            Average(Gamma(px, py, pz), w),
            IF disp_corrected
            THEN RemoveCorrelation(Centred(x, w), Dgamma(px, py, pz, w), w)
            ELSE Centred(x, w),
            Centred(px, w), w)

\* Every call that can raise comes before the first write to x.
twiss_parameters_ph_raises(x, none, w, disp_corrected) ==
    \/ normalized_transverse_rms_emittance_raises(x, none, w, disp_corrected)
    \/ none # {}
    \/ AverageRaises(x, w)

\* xp = px; xp /= pz: the slopes written into the caller's px.
TwissTrAliased(em_x, x, xp, px, w) ==
    TwissResult(TwissValues(Average(Times(x, x), w),
                            Average(Times(x, xp), w), em_x),
                x, xp)

\* lines 79-80: the moments of the x the branch 'tr' has written and of xp
TwissTr(em_x, x, xp, px, w) ==
    TwissResult(TwissValues(Average(Times(x, x), w),
                            Average(Times(x, xp), w), em_x),
                x, px)

(* twiss_parameters, emitt == 'tr' (lines 60-80).  xp is a new array;      *)
(* x -= x_avg and x -= slope*dgamma write into the caller's x.             *)
twiss_parameters_tr(x, px, pz, py, w, disp_corrected) ==
    IF disp_corrected
    THEN TwissTr(transverse_trace_space_rms_emittance(x, px, py, pz, w, disp_corrected),
                 RemoveCorrelation(Centred(x, w), Dgamma(px, py, pz, w), w),
                 RemoveCorrelation(Centred(Xp(px, pz), w), Dgamma(px, py, pz, w), w),
                 px, w)
    ELSE TwissTr(transverse_trace_space_rms_emittance(x, px, py, pz, w, disp_corrected),
                 Centred(x, w), Centred(Xp(px, pz), w), px, w)

\* The calls that raise before line 67 writes to x.
twiss_parameters_tr_raises(x, none, w, disp_corrected) ==
    \/ transverse_trace_space_rms_emittance_raises(x, none, w, disp_corrected)
    \/ "pz" \in none
    \/ AverageRaises(x, w)

(* np.square(py) of line 71 raises when py is None, after line 67 centred  *)
(* the caller's x (a beam of one particle: the emittance did not look at   *)
(* py).                                                                    *)
twiss_parameters_tr_raises_late(x, none, w, disp_corrected) ==
    /\ ~twiss_parameters_tr_raises(x, none, w, disp_corrected)
    /\ disp_corrected
    /\ none # {}

twiss_parameters(x, px, pz, py, w, emitt, disp_corrected) ==
    IF emitt = "ph" THEN twiss_parameters_ph(x, px, pz, py, w, disp_corrected)
    ELSE twiss_parameters_tr(x, px, pz, py, w, disp_corrected)

twiss_parameters_raises(x, none, w, emitt, disp_corrected) ==
    IF emitt = "ph" THEN twiss_parameters_ph_raises(x, none, w, disp_corrected)
    ELSE twiss_parameters_tr_raises(x, none, w, disp_corrected)

(* twiss_parameters_corrected (lines 109-125).  x, xp and px are new       *)
(* arrays.  Line 124 calls twiss_parameters(x, px, pz, w): the fourth      *)
(* positional parameter of twiss_parameters is py, so the caller's w is    *)
(* passed as py and the weight is the default w=1, a single value.         *)
DefaultW == [iter |-> FALSE, val |-> Q(1)]

\* x - p[0]*dgamma, p = np.polyfit(dgamma, x, 1, w=w) (lines 114-116)
RemoveFit(v, dgamma, w) == Minus(v, Scale(dgamma, PolyfitSlope(dgamma, v, w)))

CorrectedX(x, px, py, pz, w) == RemoveFit(x, Dgamma(px, py, pz, w), w)

CorrectedPx(x, px, py, pz, w) ==
    Times(RemoveFit(Xp(px, pz), Dgamma(px, py, pz, w), w), pz)

\* line 124 on the corrected x and px
TwissOfCorrected(xc, pxc, pz, w) ==
    IF twiss_parameters_raises(xc, {}, DefaultW, "tr", FALSE) THEN Raised
    ELSE twiss_parameters(xc, pxc, pz, w.val, DefaultW, "tr", FALSE)

twiss_parameters_corrected(x, px, py, pz, w) ==
    TwissOfCorrected(CorrectedX(x, px, py, pz, w), CorrectedPx(x, px, py, pz, w), pz, w)

\* np.average(gamma, weights=w) of line 111 and the fits of lines 114, 119
twiss_parameters_corrected_raises(x, w) == AverageRaises(x, w) \/ Len(x) = 0

\* ------------------------------------------------------------ the state
VARIABLES
    beam,   \* the caller's arrays x, px, py, pz, z, w, q as they are now
    entry,  \* the caller's arrays as they were when the last call was made
    call,   \* the last call: the operation and its arguments
    ret,    \* what the last call returned, or that it raised
    prev    \* what the call before it returned, when the last call repeats it

vars == <<beam, entry, call, ret, prev>>

(* The particles beams are made of, x, px, py, pz: of a rational momentum  *)
(* sqrt(px^2+py^2+pz^2) for the transverse estimators (Kinds), and of a    *)
(* rational energy sqrt(1+px^2+py^2+pz^2) as well for the estimators that  *)
(* take it (EnergyKinds).                                                  *)
Kinds ==
    << [x |-> Q(0),  px |-> Q(0),  py |-> Q(0), pz |-> Q(1)],
       [x |-> Q(1),  px |-> Q(3),  py |-> Q(0), pz |-> Q(4)],
       [x |-> Q(2),  px |-> Q(0),  py |-> Q(0), pz |-> Q(2)],
       [x |-> Q(-1), px |-> Q(-3), py |-> Q(0), pz |-> Q(4)],
       [x |-> Q(1),  px |-> Q(0),  py |-> Q(3), pz |-> Q(4)],
       [x |-> Q(0),  px |-> Q(1),  py |-> Q(0), pz |-> Q(0)] >>

EnergyKinds ==
    << [x |-> Q(0),  px |-> Q(0),       py |-> Q(0), pz |-> <<3, 4>>],
       [x |-> Q(1),  px |-> <<9, 20>>,  py |-> Q(0), pz |-> <<3, 5>>],
       [x |-> Q(2),  px |-> Q(0),       py |-> Q(0), pz |-> <<4, 3>>],
       [x |-> Q(-1), px |-> <<-9, 20>>, py |-> Q(0), pz |-> <<3, 5>>] >>

\* The weights of n particles: an array (a ramp, or all 1) or a single value.
WeightValues == {1, 2}

Weights(n) ==
    {[iter |-> TRUE, val |-> [i \in 1..n |-> Q(1 + ((i + s) % Cardinality(WeightValues)))]] :
        s \in WeightValues}
    \cup {[iter |-> TRUE, val |-> [i \in 1..n |-> Q(1)]]}
    \cup {[iter |-> FALSE, val |-> Q(v)] : v \in WeightValues}

\* The charge of a particle is its weight (in units of 1e-12 C).
Charges(n, w) == IF w.iter THEN w.val ELSE [i \in 1..n |-> w.val]

\* The beam of the particles ps at the positions zs with the weights w.
Beam(ps, zs, w) ==
    [x  |-> [i \in 1..Len(ps) |-> ps[i].x],
     px |-> [i \in 1..Len(ps) |-> ps[i].px],
     py |-> [i \in 1..Len(ps) |-> ps[i].py],
     pz |-> [i \in 1..Len(ps) |-> ps[i].pz],
     z  |-> [i \in 1..Len(ps) |-> Q(zs[i])],
     w  |-> w,
     q  |-> Charges(Len(ps), w)]

\* Beams of any positions z, the particles taking the energy kinds in turn.
SliceBeams ==
    {Beam([i \in 1..n |-> EnergyKinds[1 + ((i - 1) % Len(EnergyKinds))]], zs, w) :
        <<n, zs, w>> \in UNION {{n} \X [1..n -> 0..MaxZ] \X Weights(n) : n \in 0..MaxN}}

\* Beams of any kinds (in increasing order), the particles at z = 0, 1, ...
MomentBeams ==
    {Beam([i \in 1..n |-> Kinds[ks[i]]], [i \in 1..n |-> i - 1], w) :
        <<n, ks, w>> \in UNION {{n} \X {k \in [1..n -> 1..Len(Kinds)] :
                                          \A i \in 1..n - 1 : k[i] < k[i + 1]}
                                    \X Weights(n) : n \in 0..MaxN}}

\* z = [0 .. 9], q = 1e-12 C each, the worked example of the current profile
ExampleBeam ==
    Beam([i \in 1..10 |-> EnergyKinds[1]], [i \in 1..10 |-> i - 1],
         [iter |-> TRUE, val |-> [i \in 1..10 |-> Q(1)]])

(* Four particles of uniform weight: with fewer, what is left of x and of  *)
(* xp once the dgamma correlation is taken off both is collinear and the   *)
(* dispersion-corrected trace-space emittance is zero.                     *)
TwissBeams ==
    {Beam([i \in 1..Len(ks) |-> Kinds[ks[i]]], [i \in 1..Len(ks) |-> i - 1],
          [iter |-> TRUE, val |-> [i \in 1..Len(ks) |-> Q(1)]]) :
        ks \in {<<1, 2, 3, 4>>, <<1, 2, 3, 5>>}}

NoCall ==
    [op |-> "none", none |-> {}, emitt |-> "tr", disp_corrected |-> FALSE,
     n_slices |-> 0, len_slice |-> None]

NoReturn == [status |-> "none"]

Start(beams) ==
    /\ beam \in beams
    /\ entry = beam
    /\ call = NoCall
    /\ ret = NoReturn
    /\ prev = NoReturn

Init == Start(MomentBeams \cup TwissBeams)

InitSlices == Start(SliceBeams \cup {ExampleBeam})

\* The caller is between two calls.
Idle == call.op = "none"

\* A call c that returns (or raises) r and leaves the caller's arrays b.
Does(c, r, b) ==
    /\ call' = c
    /\ ret' = r
    /\ prev' = ret
    /\ entry' = beam
    /\ beam' = b

\* The caller drops what the last call returned.
Discard ==
    /\ ~Idle
    /\ call' = NoCall
    /\ ret' = NoReturn
    /\ prev' = NoReturn
    /\ entry' = beam
    /\ beam' = beam

N == Len(beam.x)

\* The optional arguments a caller may leave out, and the slicing arguments.
PyPz == {{}, {"py", "pz"}}

LenSlices == {Q(1), Q(2)}

Slicing == {<<n, None>> : n \in 1..MaxSlices} \cup {<<10, l>> : l \in LenSlices}

Py(none) == IF "py" \in none THEN <<>> ELSE beam.py

Pz(none) == IF "pz" \in none THEN <<>> ELSE beam.pz

\* The roots the model takes exactly.
GammaOk == GammaExact(beam.px, beam.py, beam.pz)

EnergyOk == EnergyExact(beam.px, beam.py, beam.pz)

\* A dispersion-corrected call on two particles or more has a fit to make.
FitOk(x, px, py, pz, w, disp_corrected) ==
    (disp_corrected /\ Len(x) > 1 /\ ~AverageRaises(x, w))
        => GammaExact(px, py, pz) /\ FitPosed(px, py, pz, w)

Scalar(v, steps) == [status |-> "returned", value |-> v, steps |-> steps]

NormalizedTransverseRmsEmittance ==
    /\ Idle
    /\ \E none \in PyPz, d \in BOOLEAN :
           /\ none = {} => FitOk(beam.x, beam.px, beam.py, beam.pz, beam.w, d)
           /\ Does([NoCall EXCEPT !.op = "normalized_transverse_rms_emittance",
                                  !.none = none, !.disp_corrected = d],
                   IF normalized_transverse_rms_emittance_raises(beam.x, none, beam.w, d)
                   THEN Raised
                   ELSE Scalar(normalized_transverse_rms_emittance(
                                   beam.x, beam.px, Py(none), Pz(none), beam.w, d),
                               normalized_transverse_rms_emittance_steps(beam.x, d)),
                   beam)

TransverseTraceSpaceRmsEmittance ==
    /\ Idle
    /\ \E none \in PyPz, d \in BOOLEAN :
           /\ none = {} => FitOk(beam.x, beam.px, beam.py, beam.pz, beam.w, d)
           /\ Does([NoCall EXCEPT !.op = "transverse_trace_space_rms_emittance",
                                  !.none = none, !.disp_corrected = d],
                   IF transverse_trace_space_rms_emittance_raises(beam.x, none, beam.w, d)
                   THEN Raised
                   ELSE Scalar(transverse_trace_space_rms_emittance(
                                   beam.x, beam.px, Py(none), Pz(none), beam.w, d),
                               transverse_trace_space_rms_emittance_steps(beam.x, d)),
                   beam)

GeometricTransverseRmsEmittance ==
    /\ Idle
    /\ \E d \in BOOLEAN :
           /\ GammaOk
           /\ FitOk(beam.x, beam.px, beam.py, beam.pz, beam.w, d)
           /\ Does([NoCall EXCEPT !.op = "geometric_transverse_rms_emittance",
                                  !.disp_corrected = d],
                   IF geometric_transverse_rms_emittance_raises(beam.x, {}, beam.w, d)
                   THEN Raised
                   ELSE Scalar(geometric_transverse_rms_emittance(
                                   beam.x, beam.px, beam.py, beam.pz, beam.w, d),
                               {"sqrt", "average"}
                                   \cup normalized_transverse_rms_emittance_steps(beam.x, d)),
                   beam)

NormalizedTransverseTraceSpaceRmsEmittance ==
    /\ Idle
    /\ \E d \in BOOLEAN :
           /\ GammaOk
           /\ FitOk(beam.x, beam.px, beam.py, beam.pz, beam.w, d)
           /\ Does([NoCall EXCEPT !.op = "normalized_transverse_trace_space_rms_emittance",
                                  !.disp_corrected = d],
                   IF normalized_transverse_trace_space_rms_emittance_raises(beam.x, {}, beam.w, d)
                   THEN Raised
                   ELSE Scalar(normalized_transverse_trace_space_rms_emittance(
                                   beam.x, beam.px, beam.py, beam.pz, beam.w, d),
                               {"sqrt", "average"}
                                   \cup transverse_trace_space_rms_emittance_steps(beam.x, d)),
                   beam)

LongitudinalRmsEmittance ==
    /\ Idle
    /\ EnergyOk
    /\ Does([NoCall EXCEPT !.op = "longitudinal_rms_emittance"],
            IF longitudinal_rms_emittance_raises(beam.z, {}, beam.w)
            THEN Raised
            ELSE Scalar(longitudinal_rms_emittance(beam.z, beam.px, beam.py, beam.pz, beam.w),
                        longitudinal_rms_emittance_steps),
            beam)

LongitudinalEnergyChirp ==
    /\ Idle
    /\ EnergyOk
    /\ ~longitudinal_energy_chirp_raises(beam.z, beam.w) => ChirpPosed(beam.z)
    /\ Does([NoCall EXCEPT !.op = "longitudinal_energy_chirp"],
            IF longitudinal_energy_chirp_raises(beam.z, beam.w)
            THEN Raised
            ELSE Scalar(longitudinal_energy_chirp(beam.z, beam.px, beam.py, beam.pz, beam.w),
                        {"sqrt", "average", "polyfit"}),
            beam)

RmsCorrelatedEnergySpread ==
    /\ Idle
    /\ EnergyOk
    /\ ~longitudinal_energy_chirp_raises(beam.z, beam.w) => ChirpPosed(beam.z)
    /\ Does([NoCall EXCEPT !.op = "rms_correlated_energy_spread"],
            IF longitudinal_energy_chirp_raises(beam.z, beam.w)
            THEN Raised
            ELSE Scalar(rms_correlated_energy_spread(beam.z, beam.px, beam.py, beam.pz, beam.w),
                        {"sqrt", "average", "polyfit", "weighted_std"}),
            beam)

\* The a_x, b_x, g_x of what a Twiss computation gave, or that it raised.
Functions(r) ==
    IF r.status = "raised" THEN Raised
    ELSE [status |-> "returned", a_x |-> r.a_x, b_x |-> r.b_x, g_x |-> r.g_x]

\* twiss_parameters returns r and leaves its x and px in the caller's arrays.
TwissReturns(c, r) == Does(c, Functions(r), [beam EXCEPT !.x = r.x, !.px = r.px])

TwissCall(c, raises, late) ==
    /\ (~raises /\ ~late /\ (c.emitt = "ph" \/ c.disp_corrected)) => GammaOk
    /\ c.none = {} => FitOk(beam.x, beam.px, beam.py, beam.pz, beam.w, c.disp_corrected)
    /\ (~raises /\ ~late /\ c.disp_corrected) => FitPosed(beam.px, beam.py, beam.pz, beam.w)
    /\ IF raises THEN Does(c, Raised, beam)
       ELSE IF late THEN Does(c, Raised, [beam EXCEPT !.x = Centred(beam.x, beam.w)])
       ELSE TwissReturns(c, twiss_parameters(beam.x, beam.px, beam.pz, Py(c.none),
                                             beam.w, c.emitt, c.disp_corrected))

TwissParameters ==
    /\ Idle
    /\ \E emitt \in {"tr", "ph"}, d \in BOOLEAN, none \in {{}, {"py"}} :
           TwissCall([NoCall EXCEPT !.op = "twiss_parameters", !.none = none,
                                    !.emitt = emitt, !.disp_corrected = d],
                     twiss_parameters_raises(beam.x, none, beam.w, emitt, d),
                     emitt = "tr" /\ twiss_parameters_tr_raises_late(beam.x, none, beam.w, d))

\* The caller makes the call that has just returned once more, on the same arrays.
TwissParametersAgain ==
    /\ call.op = "twiss_parameters"
    /\ ret.status = "returned"
    /\ TwissCall(call,
                 twiss_parameters_raises(beam.x, call.none, beam.w, call.emitt,
                                         call.disp_corrected),
                 call.emitt = "tr" /\ twiss_parameters_tr_raises_late(
                                          beam.x, call.none, beam.w, call.disp_corrected))

TwissParametersCorrected ==
    /\ Idle
    /\ ~twiss_parameters_corrected_raises(beam.x, beam.w)
          => GammaOk /\ FitPosed(beam.px, beam.py, beam.pz, beam.w)
    /\ Does([NoCall EXCEPT !.op = "twiss_parameters_corrected"],
            IF twiss_parameters_corrected_raises(beam.x, beam.w) THEN Raised
            ELSE Functions(twiss_parameters_corrected(beam.x, beam.px, beam.py,
                                                      beam.pz, beam.w)),
            beam)

RelativeRmsSliceEnergySpread ==
    /\ Idle
    /\ \E s \in Slicing :
           /\ EnergyOk /\ GammaOk
           /\ Does([NoCall EXCEPT !.op = "relative_rms_slice_energy_spread",
                                  !.n_slices = s[1], !.len_slice = s[2]],
                   IF relative_rms_slice_energy_spread_raises(beam.z, beam.px, {}, beam.w, s[1], s[2])
                   THEN Raised
                   ELSE relative_rms_slice_energy_spread(
                            beam.z, beam.px, beam.py, beam.pz, beam.w, s[1], s[2]),
                   beam)

\* Every slice the emittance is asked to correct has a fit to make.
SliceFitOk(none, d, n_slices, len_slice) ==
    (d /\ none = {} /\ Len(beam.z) > 0) =>
        LET cbs == create_beam_slices(beam.z, n_slices, len_slice)
            fs  == SliceFilters(beam.z, cbs.slice_lims, cbs.n_slices)
        IN  \A i \in 1..cbs.n_slices :
                FitOk(Pick(beam.x, fs[i]), Pick(beam.px, fs[i]), Pick(beam.py, fs[i]),
                      Pick(beam.pz, fs[i]), SliceOfW(beam.w, fs[i]), d)

NormalizedTransverseRmsSliceEmittance ==
    /\ Idle
    /\ \E s \in Slicing, none \in PyPz, d \in BOOLEAN :
           /\ SliceFitOk(none, d, s[1], s[2])
           /\ Does([NoCall EXCEPT !.op = "normalized_transverse_rms_slice_emittance",
                                  !.none = none, !.disp_corrected = d,
                                  !.n_slices = s[1], !.len_slice = s[2]],
                   IF normalized_transverse_rms_slice_emittance_raises(
                          beam.z, beam.x, none, beam.w, d, s[1], s[2])
                   THEN Raised
                   ELSE normalized_transverse_rms_slice_emittance(
                            beam.z, beam.x, beam.px, beam.py, beam.pz, beam.w, d, s[1], s[2]),
                   beam)

CurrentProfile ==
    /\ Idle
    /\ \E s \in Slicing :
           Does([NoCall EXCEPT !.op = "current_profile", !.n_slices = s[1], !.len_slice = s[2]],
                IF current_profile_raises(beam.z, s[1], s[2]) THEN Raised
                ELSE current_profile(beam.z, beam.q, s[1], s[2]),
                beam)

\* The moment estimators of a beam, its Twiss functions and slice emittance.
Next ==
    \/ NormalizedTransverseRmsEmittance
    \/ TransverseTraceSpaceRmsEmittance
    \/ GeometricTransverseRmsEmittance
    \/ NormalizedTransverseTraceSpaceRmsEmittance
    \/ TwissParameters
    \/ TwissParametersAgain
    \/ TwissParametersCorrected
    \/ NormalizedTransverseRmsSliceEmittance
    \/ Discard

Spec == Init /\ [][Next]_vars

\* The sliced estimators, with the emittance they take of each slice.
NextSlices ==
    \/ RelativeRmsSliceEnergySpread
    \/ NormalizedTransverseRmsSliceEmittance
    \/ CurrentProfile
    \/ NormalizedTransverseRmsEmittance
    \/ TransverseTraceSpaceRmsEmittance
    \/ LongitudinalRmsEmittance
    \/ LongitudinalEnergyChirp
    \/ RmsCorrelatedEnergySpread
    \/ Discard

SpecSlices == InitSlices /\ [][NextSlices]_vars

\* ------------------------------------------------------------ properties
\* The last call was to a sliced estimator, and it returned.
Sliced ==
    /\ call.op \in {"relative_rms_slice_energy_spread",
                    "normalized_transverse_rms_slice_emittance"}
    /\ ret.status = "returned"

(* C1: in the two sliced estimators particle i contributes to slice k if   *)
(* and only if z[i] > edges[k] and z[i] <= edges[k+1]; so a particle is in *)
(* at most one slice, and a particle at edges[0], the least z, is in none. *)
C1_SliceMembership ==
    Sliced =>
        /\ \A i \in 1..Len(entry.z), k \in 1..Len(ret.filters) :
               i \in ret.filters[k] <=>
                   /\ QLt(ret.slice_lims[k], entry.z[i])
                   /\ QLe(entry.z[i], ret.slice_lims[k + 1])
        /\ \A i \in 1..Len(entry.z) :
               Cardinality({k \in 1..Len(ret.filters) : i \in ret.filters[k]}) <= 1
        /\ \A i \in 1..Len(entry.z) :
               (entry.z[i] = ret.slice_lims[1] \/ entry.z[i] = MinQ(entry.z)) =>
                   \A k \in 1..Len(ret.filters) : i \notin ret.filters[k]

\* A particle on the edge between two slices is in the lower one of them.
C1_Witness ==
    /\ Sliced
    /\ \E i \in 1..Len(entry.z), k \in 1..Len(ret.filters) - 1 :
           /\ entry.z[i] = ret.slice_lims[k + 1]
           /\ i \in ret.filters[k]
           /\ i \notin ret.filters[k + 1]

(* C2: for every beam and every n_slices >= 1, the weight an array or a    *)
(* single value, a sliced estimator returns per-slice weights whose sum is *)
(* the sum of the weights of the particles with z > min(z).                *)
C2_SliceWeightsSum ==
    (/\ call.op \in {"relative_rms_slice_energy_spread",
                     "normalized_transverse_rms_slice_emittance"}
     /\ call.none = {}
     /\ call.len_slice = None
     /\ Len(entry.z) > 0) =>
        /\ ret.status = "returned"
        /\ SumQ(ret.slice_weight) =
               SumQ([i \in 1..Len(entry.z) |->
                        IF QLt(MinQ(entry.z), entry.z[i])
                        THEN (IF entry.w.iter THEN entry.w.val[i] ELSE entry.w.val)
                        ELSE Q(0)])

(* C3: the sliced estimators return per-slice values and weights of        *)
(* exactly n_slices entries, and a slice with no particle has the value 0  *)
(* and the weight 0 at its own index.                                      *)
C3_EmptySlicesKept ==
    Sliced =>
        /\ call.len_slice = None => Len(ret.slice_lims) = call.n_slices + 1
        /\ Len(ret.slice_value) = Len(ret.slice_lims) - 1
        /\ Len(ret.slice_weight) = Len(ret.slice_lims) - 1
        /\ \A k \in 1..Len(ret.slice_lims) - 1 :
               (\A i \in 1..Len(entry.z) :
                    ~(/\ QLt(ret.slice_lims[k], entry.z[i])
                      /\ QLe(entry.z[i], ret.slice_lims[k + 1]))) =>
                   /\ ret.slice_value[k] = SZero
                   /\ ret.slice_weight[k] = Q(0)

\* A slice with no particle comes before a slice that has weight.
C3_Witness ==
    /\ Sliced
    /\ \E k \in 1..Len(ret.filters) - 1 :
           /\ ret.filters[k] = {}
           /\ ret.slice_weight[k] = Q(0)
           /\ ret.filters[k + 1] # {}
           /\ ret.slice_weight[k + 1] # Q(0)

(* C4: current_profile of a beam with max(z) > min(z): the currents times  *)
(* the slice duration ((max(z) - min(z))/n_slices)/c add up to sum(q), the *)
(* particles at min(z) and at max(z) counted.                              *)
C4_CurrentTimesDuration ==
    (/\ call.op = "current_profile"
     /\ ret.status = "returned"
     /\ QLt(MinQ(entry.z), MaxQ(entry.z))) =>
        LET n      == Len(ret.current_prof)
            sl_dur == CNum(QDiv(QSub(MaxQ(entry.z), MinQ(entry.z)), Q(n)), -1)
        IN  /\ \A k \in 1..n : CMul(ret.current_prof[k], sl_dur).cpow = 0
            /\ SumQ([k \in 1..n |-> CMul(ret.current_prof[k], sl_dur).val])
                   = SumQ(entry.q)

\* Two bins or more, a particle on the edge between two of them.
C4_Witness ==
    /\ call.op = "current_profile"
    /\ ret.status = "returned"
    /\ QLt(MinQ(entry.z), MaxQ(entry.z))
    /\ Len(ret.current_prof) >= 2
    /\ \E i \in 1..Len(entry.z) : entry.z[i] = ret.z_edges[2]
    /\ SumQ(entry.q) # Q(0)

\* current_profile(z = [0 .. 9], q = 1e-12 C each, n_slices = 2) was called.
ExampleCall ==
    /\ call.op = "current_profile"
    /\ call.n_slices = 2
    /\ call.len_slice = None
    /\ entry = ExampleBeam

(* C5 as stated: the edges are [0, 4.5, 9], the first bin holds           *)
(* the 4 particles at z = 1..4, the second the 5 at z = 5..9, and the      *)
(* charge counted is 9e-12 C (charges in units of 1e-12 C).                *)
C5_ExampleAsClaimed ==
    ExampleCall =>
        /\ ret.status = "returned"
        /\ ret.z_edges = <<Q(0), <<9, 2>>, Q(9)>>
        /\ QMul(ret.current_prof[1].val, ret.printed) = Q(4)
        /\ QMul(ret.current_prof[2].val, ret.printed) = Q(5)
        /\ QMul(QAdd(ret.current_prof[1].val, ret.current_prof[2].val), ret.printed) = Q(9)

(* C5 amended: the edges are [0, 4.5, 9], the first bin holds the 5        *)
(* particles at z = 0..4 (the one at z = 0 with them), the second the 5 at *)
(* z = 5..9, and the charge counted is 10e-12 C.                           *)
C5_Example ==
    ExampleCall =>
        /\ ret.status = "returned"
        /\ ret.z_edges = <<Q(0), <<9, 2>>, Q(9)>>
        /\ QMul(ret.current_prof[1].val, ret.printed) = Q(5)
        /\ QMul(ret.current_prof[2].val, ret.printed) = Q(5)
        /\ QMul(QAdd(ret.current_prof[1].val, ret.current_prof[2].val), ret.printed) = Q(10)

C5_Witness == ExampleCall /\ ret.status = "returned" /\ ret.printed = <<9, 2>>

(* C6: normalized_transverse_rms_emittance and                             *)
(* transverse_trace_space_rms_emittance of fewer than 2 particles return 0 *)
(* for either disp_corrected, with no division px/pz, fit or covariance    *)
(* made (pz zero or None raises nothing); a slice of one particle gets the *)
(* emittance 0 and its weight.                                             *)
C6_FewerThanTwo ==
    /\ (/\ call.op \in {"normalized_transverse_rms_emittance",
                        "transverse_trace_space_rms_emittance"}
        /\ Len(entry.x) < 2) =>
           /\ ret.status = "returned"
           /\ ret.value = SZero
           /\ ret.steps = {}
    /\ (/\ call.op = "normalized_transverse_rms_slice_emittance"
        /\ ret.status = "returned") =>
           \A k \in 1..Len(ret.filters) : \A i \in ret.filters[k] :
               ret.filters[k] = {i} =>
                   /\ ret.slice_value[k] = SZero
                   /\ ret.slice_weight[k] =
                          (IF entry.w.iter THEN entry.w.val[i] ELSE entry.w.val)

\* One particle, disp_corrected, py and pz None: 0 is returned.
C6_Witness ==
    /\ call.op = "normalized_transverse_rms_emittance"
    /\ Len(entry.x) = 1
    /\ call.disp_corrected
    /\ call.none = {"py", "pz"}
    /\ ret.status = "returned"
    /\ ret.value = SZero

(* C7: longitudinal_rms_emittance of fewer than 2 particles returns 0; it  *)
(* neither raises nor evaluates the covariance.                            *)
C7_LongitudinalFewerThanTwo ==
    (call.op = "longitudinal_rms_emittance" /\ Len(entry.z) < 2) =>
        /\ ret.status = "returned"
        /\ ret.value = SZero
        /\ ret.steps = {}

(* C8: geometric_transverse_rms_emittance(x, px, py, pz, w, d) times       *)
(* gammaAvg, the w-weighted mean of sqrt(px^2+py^2+pz^2), when that is not *)
(* zero, is normalized_transverse_rms_emittance of the same arguments;     *)
(* also of fewer than 2 particles, where both are 0.                       *)
C8_GeometricTimesGamma ==
    (call.op = "geometric_transverse_rms_emittance" /\ ret.status = "returned") =>
        LET gamma_avg == Average(Gamma(entry.px, entry.py, entry.pz), entry.w)
        IN  (Finite(gamma_avg) /\ gamma_avg[1] # 0) =>
                /\ SFinite(ret.value)
                /\ SEq(SMulQ(ret.value, gamma_avg),
                       normalized_transverse_rms_emittance(
                           entry.x, entry.px, entry.py, entry.pz, entry.w,
                           call.disp_corrected))
                /\ Len(entry.x) < 2 => ret.value = SZero

\* Weights that differ, a dispersion-corrected emittance that is not zero.
C8_Witness ==
    /\ call.op = "geometric_transverse_rms_emittance"
    /\ ret.status = "returned"
    /\ call.disp_corrected
    /\ ~SIsZero(ret.value)
    /\ \E i, j \in 1..Len(entry.x) : entry.w.val[i] # entry.w.val[j]

(* C9: twiss_parameters_corrected(x, px, py, pz, w) returns what the       *)
(* trace-space twiss_parameters without correction returns with the        *)
(* caller's w on x' = x - s_x*dgamma and px' = (px/pz - s_xp*dgamma)*pz    *)
(* (two particles or more, no pz zero).                                    *)
C9_CorrectedUsesCallersWeights ==
    (/\ call.op = "twiss_parameters_corrected"
     /\ Len(entry.x) > 1
     /\ entry.w.iter
     /\ \A i \in 1..Len(entry.pz) : entry.pz[i][1] # 0) =>
        ret = Functions(twiss_parameters(
                  CorrectedX(entry.x, entry.px, entry.py, entry.pz, entry.w),
                  CorrectedPx(entry.x, entry.px, entry.py, entry.pz, entry.w),
                  entry.pz, entry.py, entry.w, "tr", FALSE))

(* C10 as stated: after an operation returns, each array of the           *)
(* caller is as it was or is its input minus its own weighted mean.        *)
C10_UnchangedOrCentredOnly ==
    ret.status = "returned" =>
        /\ \A f \in {"x", "px", "py", "pz", "z", "q"} :
               \/ beam[f] = entry[f]
               \/ /\ ~AverageRaises(entry[f], entry.w)
                  /\ beam[f] = Centred(entry[f], entry.w)
        /\ \/ beam.w = entry.w
           \/ /\ entry.w.iter
              /\ beam.w = [iter |-> TRUE, val |-> Centred(entry.w.val, entry.w)]

(* C10 amended: after an operation returns, the caller's arrays are as     *)
(* they were, but for twiss_parameters: it leaves x minus its weighted     *)
(* mean in x, with disp_corrected less slope*dgamma as well (slope the     *)
(* correlation of the centred x with dgamma), and for emitt 'ph' px minus  *)
(* its weighted mean in px.                                                *)
C10_Frame ==
    ret.status = "returned" =>
        /\ \A f \in {"py", "pz", "z", "w", "q"} : beam[f] = entry[f]
        /\ call.op # "twiss_parameters" => beam.x = entry.x /\ beam.px = entry.px
        /\ call.op = "twiss_parameters" =>
               /\ beam.x = IF call.disp_corrected
                           THEN RemoveCorrelation(
                                    Centred(entry.x, entry.w),
                                    Dgamma(entry.px, entry.py, entry.pz, entry.w), entry.w)
                           ELSE Centred(entry.x, entry.w)
               /\ beam.px = IF call.emitt = "ph" THEN Centred(entry.px, entry.w)
                            ELSE entry.px

\* A dispersion-corrected Twiss call that took more than the mean off x.
C10_Witness ==
    /\ call.op = "twiss_parameters"
    /\ ret.status = "returned"
    /\ call.disp_corrected
    /\ beam.x # entry.x
    /\ beam.x # Centred(entry.x, entry.w)
    /\ \A i \in 1..Len(beam.x) : Finite(beam.x[i])

(* C11: twiss_parameters called twice in succession on the same arrays     *)
(* with the same arguments returns the same alpha, beta and gamma both     *)
(* times, for emitt 'tr' and 'ph', with and without disp_corrected.        *)
C11_TwiceTheSame ==
    (call.op = "twiss_parameters" /\ prev.status = "returned") =>
        /\ ret.status = "returned"
        /\ ret.a_x = prev.a_x \/ SEq(ret.a_x, prev.a_x)
        /\ ret.b_x = prev.b_x \/ SEq(ret.b_x, prev.b_x)
        /\ ret.g_x = prev.g_x \/ SEq(ret.g_x, prev.g_x)


(* C12: current_profile called with a positive len_slice, one larger than  *)
(* max(z) - min(z) included, returns floor((max(z) - min(z))/len_slice)    *)
(* currents and one edge more, the edges increasing from min(z) to max(z), *)
(* every bin as wide as the adjusted slice length (max(z) - min(z))/n.     *)
C12_LenSliceBins ==
    (/\ call.op = "current_profile"
     /\ call.len_slice # None
     /\ Len(entry.z) > 0
     /\ QLt(MinQ(entry.z), MaxQ(entry.z))) =>
        /\ ret.status = "returned"
        /\ LET n == QFloor(QDiv(QSub(MaxQ(entry.z), MinQ(entry.z)), call.len_slice))
           IN  /\ Len(ret.current_prof) = n
               /\ Len(ret.z_edges) = n + 1
               /\ ret.z_edges[1] = MinQ(entry.z)
               /\ ret.z_edges[n + 1] = MaxQ(entry.z)
               /\ \A k \in 1..n :
                      /\ QLt(ret.z_edges[k], ret.z_edges[k + 1])
                      /\ QSub(ret.z_edges[k + 1], ret.z_edges[k]) = ret.printed
                      /\ QMul(ret.printed, Q(n)) = QSub(MaxQ(entry.z), MinQ(entry.z))

\* The x a dispersion-corrected twiss_parameters works on: centred, then decorrelated.
C13_X == RemoveCorrelation(Centred(entry.x, entry.w),
                           Dgamma(entry.px, entry.py, entry.pz, entry.w), entry.w)

\* The slopes xp = px/pz, centred, then decorrelated.
C13_Xp == RemoveCorrelation(Centred(Xp(entry.px, entry.pz), entry.w),
                            Dgamma(entry.px, entry.py, entry.pz, entry.w), entry.w)

\* The call returned the alpha, beta and gamma tw.
C13_Returns(tw) == ret.a_x = tw.a_x /\ ret.b_x = tw.b_x /\ ret.g_x = tw.g_x

(* C13: twiss_parameters with disp_corrected: the branch 'ph' takes the    *)
(* linear dgamma correlation off x only and has px merely centred in       *)
(* alpha = -<x px>/em_x; the branch 'tr' takes it off both x and           *)
(* xp = px/pz before alpha and beta; in both, dgamma is of the momenta as  *)
(* they were when the call was made.                                       *)
C13_DispersionCorrected ==
    (/\ call.op = "twiss_parameters"
     /\ call.disp_corrected
     /\ ret.status = "returned") =>
        /\ beam.x = C13_X
        /\ call.emitt = "ph" =>
               /\ beam.px = Centred(entry.px, entry.w)
               /\ ret.a_x = TwissValues(
                                Q(0), Average(Times(C13_X, Centred(entry.px, entry.w)), entry.w),
                                normalized_transverse_rms_emittance(
                                    entry.x, entry.px, entry.py, entry.pz, entry.w, TRUE)).a_x
        /\ call.emitt = "tr" =>
               /\ beam.px = entry.px
               /\ C13_Returns(TwissValues(Average(Times(C13_X, C13_X), entry.w),
                                          Average(Times(C13_X, C13_Xp), entry.w),
                                          transverse_trace_space_rms_emittance(
                                              entry.x, entry.px, entry.py, entry.pz,
                                              entry.w, TRUE)))

(* A first call in the branch 'ph' that returned finite values, x and px   *)
(* both correlated with dgamma.                                            *)
C13_Witness ==
    /\ call.op = "twiss_parameters"
    /\ call.disp_corrected
    /\ call.emitt = "ph"
    /\ prev.status = "none"
    /\ ret.status = "returned"
    /\ SFinite(ret.a_x) /\ SFinite(ret.b_x) /\ ~SIsZero(ret.a_x)
    /\ beam.x # Centred(entry.x, entry.w)
    /\ slope_of_correlation(Centred(entry.px, entry.w),
                            Dgamma(entry.px, entry.py, entry.pz, entry.w), entry.w) # Q(0)

\* The sum over the particles of (a - <a>)(b - <b>), <.> the plain mean.
C14_Products(a, b) ==
    SumQ(Times(Shift(a, QDiv(SumQ(a), Q(Len(a)))), Shift(b, QDiv(SumQ(b), Q(Len(b))))))

(* The slope of the least-squares line of the energies against z, every    *)
(* particle counted once, over the mean energy of the weights w.           *)
C14_Chirp(w) ==
    QDiv(QDiv(C14_Products(entry.z, Energy(entry.px, entry.py, entry.pz)),
              C14_Products(entry.z, entry.z)),
         Average(Energy(entry.px, entry.py, entry.pz), w))

\* Every array of weights of the values the beams take.
C14_Weights ==
    {[iter |-> TRUE, val |-> v] : v \in [1..Len(entry.z) -> {Q(k) : k \in WeightValues}]}

(* C14: longitudinal_energy_chirp returns the slope of the unweighted      *)
(* least-squares line of (energy - mean energy)/mean energy against        *)
(* z - mean z, the weights entering by the two weighted means only: any    *)
(* weights of the same weighted mean energy give the same K; and           *)
(* rms_correlated_energy_spread is the weighted deviation of this K times  *)
(* z - mean z.                                                             *)
C14_UnweightedChirp ==
    /\ (call.op = "longitudinal_energy_chirp" /\ ret.status = "returned") =>
           /\ ret.value = C14_Chirp(entry.w)
           /\ \A w \in C14_Weights :
                  Average(Energy(entry.px, entry.py, entry.pz), w)
                      = Average(Energy(entry.px, entry.py, entry.pz), entry.w)
                  => longitudinal_energy_chirp(entry.z, entry.px, entry.py, entry.pz, w)
                         = ret.value
    /\ (call.op = "rms_correlated_energy_spread" /\ ret.status = "returned") =>
           ret.value = weighted_std(Scale(Shift(entry.z, Average(entry.z, entry.w)),
                                          C14_Chirp(entry.w)), entry.w)

(* A chirp that is not zero, of weights that are not all the same, and     *)
(* other weights of the same mean energy and another mean z.               *)
C14_Witness ==
    /\ call.op = "longitudinal_energy_chirp"
    /\ ret.status = "returned"
    /\ ret.value # Q(0)
    /\ entry.w # Ones(entry.z)
    /\ \E w \in C14_Weights :
           /\ Average(Energy(entry.px, entry.py, entry.pz), w)
                  = Average(Energy(entry.px, entry.py, entry.pz), entry.w)
           /\ Average(entry.z, w) # Average(entry.z, entry.w)
====
